---- MODULE Spec2Model ----
(***************************************************************************)
(* Model of the weekly performance aggregation of bookiebenchmark:         *)
(* utils/weekly_stats.py (get_week_date_range, calculate_weekly_report)    *)
(* over the persistence layer of utils/database.py.                        *)
(*                                                                         *)
(* Conventions:                                                            *)
(*   - a date string "YYYY-MM-DD" is the sequence of its ten characters,   *)
(*     digits as numbers 0..9 and the separators as "-";                   *)
(*   - a datetime is a record [year, month, day];                          *)
(*   - a rate rounded to one decimal (ROUND(x, 1)) is kept in tenths of a  *)
(*     percent: 66.7 is 667;                                               *)
(*   - Python's None / SQL NULL is the string "None"; a number that may be *)
(*     None is the set of at most one number;                              *)
(*   - a formatted string such as "7-3" is the sequence of its characters, *)
(*     <<7, "-", 3>>.                                                      *)
(***************************************************************************)
EXTENDS Integers, Sequences, FiniteSets, TLC

VARIABLES
    reference_date,   \* argument of get_week_date_range, a date string, or None
    week_range,       \* its return value <<start, end>>, or None
    outcomes,         \* one model's chronological correctness outcomes
    streak,           \* the streak computed from outcomes, or NotReturned
    games,            \* games table: a set of rows, one per game_id
    predictions,      \* predictions table: each model's rows, by creation time
    model_stats,      \* model_stats table: a set of rows, one per model_name
    overall_stats_read, \* the list get_model_stats returned to calculate_weekly_report
    weekly_stats_read, \* the list get_weekly_stats returned to calculate_weekly_report
    report,           \* return value of calculate_weekly_report, or NotReturned
    callout,          \* return value of format_streak_callout, or NotReturned
    ingest,           \* get_predictions_for_date at work on a game, or NotRunning
    txn,              \* the open transaction of update_game_result, or NotRunning
    reads,            \* what a running calculate_weekly_report has read, or NotRunning
    results_run,      \* the last run of update_results_for_date, or NotRunning
    morning,          \* run_morning_pipeline at work, or NotRunning
    weekly_content,   \* generate_weekly_content at work, or NotRunning
    content_log       \* content_log table: its rows in insertion order

weekVars == <<reference_date, week_range>>
streakVars == <<outcomes, streak>>
dbVars == <<games, predictions, model_stats>>
reportVars == <<overall_stats_read, weekly_stats_read, report, callout>>
procVars == <<ingest, txn, reads>>
runVars == <<results_run, morning, weekly_content, content_log>>

vars == <<weekVars, streakVars, dbVars, reportVars, procVars, runVars>>

None == "None"
\* a call that has not returned yet has no return value
NotReturned == [returned |-> FALSE]
\* a procedure that is not being executed has no position
NotRunning == [running |-> FALSE]

\* the models get_all_predictions_for_game queries and stores predictions for
PredictionModels == {"ChatGPT", "Claude", "Gemini", "Grok"}

\* the predictions table without rows
NoPredictions == [m \in PredictionModels |-> <<>>]

\* the values of the variables a specification does not use
WeekVarsIdle == reference_date = None /\ week_range = None
StreakVarsIdle == outcomes = None /\ streak = NotReturned
DbVarsIdle == games = {} /\ predictions = NoPredictions /\ model_stats = {}
ReportVarsIdle ==
    /\ overall_stats_read = <<>> /\ weekly_stats_read = <<>>
    /\ report = NotReturned /\ callout = NotReturned
ProcVarsIdle == ingest = NotRunning /\ txn = NotRunning /\ reads = NotRunning
RunVarsIdle ==
    /\ results_run = NotRunning /\ morning = NotRunning
    /\ weekly_content = NotRunning /\ content_log = <<>>

(***************************************************************************)
(* Bounds                                                                  *)
(***************************************************************************)
\* reference dates of get_week_date_range range over FirstYear..LastYear
FirstYear == 2023
LastYear == 2025
\* longest outcome sequence handed to the streak calculator on its own
MaxOutcomes == 6
\* most predictions with a known result held by the persistence layer when
\* a weekly report is built
MaxPredictions == 3
\* most predictions with a known result when two models are followed over
\* a longer history
MaxSeason == 6
\* most predictions with a known result when the stored confidences vary
MaxMixed == 3

(***************************************************************************)
(* datetime: the proleptic Gregorian calendar behind strptime, timedelta   *)
(* arithmetic, weekday() and strftime                                      *)
(***************************************************************************)
IsLeap(y) == (y % 4 = 0) /\ ((y % 100 # 0) \/ (y % 400 = 0))

DaysInMonthTable == <<31, 28, 31, 30, 31, 30, 31, 31, 30, 31, 30, 31>>

DaysInMonth(y, m) == IF m = 2 /\ IsLeap(y) THEN 29 ELSE DaysInMonthTable[m]

DaysBeforeYear(y) ==
    (y - 1) * 365 + ((y - 1) \div 4) - ((y - 1) \div 100) + ((y - 1) \div 400)

RECURSIVE DaysBeforeMonth(_, _)
DaysBeforeMonth(y, m) ==
    IF m = 1 THEN 0 ELSE DaysBeforeMonth(y, m - 1) + DaysInMonth(y, m - 1)

\* datetime.toordinal(): 0001-01-01 is day 1
ToOrdinal(dt) == DaysBeforeYear(dt.year) + DaysBeforeMonth(dt.year, dt.month) + dt.day

\* the year holding ordinal n, found as date.fromordinal does: by 400-, 100-,
\* 4- and 1-year cycles
YearOfOrdinal(n) ==
    LET n0   == n - 1
        n400 == n0 \div 146097
        r400 == n0 % 146097
        n100 == r400 \div 36524
        r100 == r400 % 36524
        n4   == r100 \div 1461
        r4   == r100 % 1461
        n1   == r4 \div 365
        y    == n400 * 400 + 1 + n100 * 100 + n4 * 4 + n1
    IN  IF n1 = 4 \/ n100 = 4 THEN y - 1 ELSE y

RECURSIVE MonthOfDayInYear(_, _, _)
MonthOfDayInYear(y, m, k) ==
    IF k <= DaysInMonth(y, m) THEN m ELSE MonthOfDayInYear(y, m + 1, k - DaysInMonth(y, m))

\* date.fromordinal()
FromOrdinal(n) ==
    LET y == YearOfOrdinal(n)
        k == n - DaysBeforeYear(y)
        m == MonthOfDayInYear(y, 1, k)
    IN  [year |-> y, month |-> m, day |-> k - DaysBeforeMonth(y, m)]

\* datetime.weekday(): Monday is 0, Sunday is 6
Weekday(dt) == (ToOrdinal(dt) + 6) % 7

\* datetime - timedelta(days=k) and datetime + timedelta(days=k)
MinusDays(dt, k) == FromOrdinal(ToOrdinal(dt) - k)
PlusDays(dt, k) == FromOrdinal(ToOrdinal(dt) + k)

\* datetime.strptime(s, "%Y-%m-%d")
Strptime(s) ==
    [year  |-> s[1] * 1000 + s[2] * 100 + s[3] * 10 + s[4],
     month |-> s[6] * 10 + s[7],
     day   |-> s[9] * 10 + s[10]]

\* datetime.strftime("%Y-%m-%d")
Strftime(dt) ==
    << dt.year \div 1000, (dt.year \div 100) % 10, (dt.year \div 10) % 10, dt.year % 10, "-",
       dt.month \div 10, dt.month % 10, "-",
       dt.day \div 10, dt.day % 10 >>

(***************************************************************************)
(* get_week_date_range                                                     *)
(***************************************************************************)
\* (mutation of DaysBack: the step back of a further week is forgotten)
DaysBack_CurrentWeek(ref) == Weekday(ref)

\* days to step back from the reference date to the Monday of the week
\* before its own
DaysBack(ref) ==
    LET days_since_monday == Weekday(ref)
    IN  (IF days_since_monday = 0 THEN 7 ELSE days_since_monday) + 7

get_week_date_range(date_string) ==
    LET ref         == Strptime(date_string)
        last_monday == MinusDays(ref, DaysBack(ref))
        last_sunday == PlusDays(last_monday, 6)
    IN  <<Strftime(last_monday), Strftime(last_sunday)>>

\* the reference dates tried: every calendar day of FirstYear..LastYear
ValidDates ==
    { Strftime([year |-> t[1], month |-> t[2], day |-> t[3]]) :
        t \in { u \in (FirstYear..LastYear) \X (1..12) \X (1..31) :
                  u[3] <= DaysInMonth(u[1], u[2]) } }

\* the week-range specification: the function applied to any reference date
\* (an explicit argument, or today's date when the argument is omitted)
WeekIdle == StreakVarsIdle /\ DbVarsIdle /\ ReportVarsIdle /\ ProcVarsIdle /\ RunVarsIdle

InitWeek ==
    /\ reference_date \in ValidDates
    /\ week_range = None
    /\ WeekIdle

CallGetWeekDateRange ==
    /\ week_range = None
    /\ week_range' = get_week_date_range(reference_date)
    /\ UNCHANGED <<reference_date, streakVars, dbVars, reportVars, procVars, runVars>>

NextWeek == CallGetWeekDateRange

SpecWeek == InitWeek /\ [][NextWeek]_vars

(***************************************************************************)
(* Claims about get_week_date_range                                        *)
(***************************************************************************)
WeekStart == Strptime(week_range[1])
WeekEnd == Strptime(week_range[2])
\* the Monday of the calendar week that contains the reference date
MondayOfReferenceWeek ==
    ToOrdinal(Strptime(reference_date)) - Weekday(Strptime(reference_date))

\* C1: the window starts on a Monday, ends on a Sunday six days later, and
\* ends strictly before the Monday of the week containing the reference date.
C1_WindowIsPriorFullWeek ==
    week_range # None =>
        /\ Weekday(WeekStart) = 0
        /\ Weekday(WeekEnd) = 6
        /\ ToOrdinal(WeekEnd) = ToOrdinal(WeekStart) + 6
        /\ ToOrdinal(WeekEnd) < MondayOfReferenceWeek

\* C1 witness: a Wednesday reference date whose window crosses a year boundary
C1_Witness ==
    /\ week_range # None
    /\ Weekday(Strptime(reference_date)) = 2
    /\ WeekStart.year < WeekEnd.year

\* C2: the window is the most recently completed week: its end is the Sunday
\* right before the Monday of the reference date's own week, also when the
\* reference date is a Monday.
C2_MostRecentCompletedWeek ==
    week_range # None => ToOrdinal(WeekEnd) = MondayOfReferenceWeek - 1

(***************************************************************************)
(* Streak calculator (utils.database.get_model_streak, imported by         *)
(* weekly_stats.py; its body is not among the sources and is modelled from *)
(* the design: scan from the most recent outcome backward, stop at the     *)
(* first outcome that differs from the first one examined or at the start) *)
(* An outcome is the is_correct column: 1 correct, 0 incorrect.            *)
(***************************************************************************)
RECURSIVE ScanBack(_, _, _)
ScanBack(seq, i, first) ==
    IF i = 0 THEN 0
    ELSE IF seq[i] # first THEN 0
    ELSE 1 + ScanBack(seq, i - 1, first)

\* (mutation of get_model_streak: the scan runs forward from the oldest outcome)
get_model_streak_Forward(seq) ==
    IF seq = <<>> THEN [type |-> None, count |-> 0]
    ELSE [type  |-> IF seq[1] = 1 THEN "W" ELSE "L",
          count |-> ScanBack([i \in 1..Len(seq) |-> seq[Len(seq) + 1 - i]], Len(seq), seq[1])]

get_model_streak(seq) ==
    IF seq = <<>> THEN [type |-> None, count |-> 0]
    ELSE [type  |-> IF seq[Len(seq)] = 1 THEN "W" ELSE "L",
          count |-> ScanBack(seq, Len(seq), seq[Len(seq)])]

RECURSIVE SeqsUpTo(_, _)
SeqsUpTo(S, n) ==
    IF n = 0 THEN { <<>> }
    ELSE LET shorter == SeqsUpTo(S, n - 1)
         IN  shorter \cup { Append(q, x) : q \in { r \in shorter : Len(r) = n - 1 }, x \in S }

StreakIdle == WeekVarsIdle /\ DbVarsIdle /\ ReportVarsIdle /\ ProcVarsIdle /\ RunVarsIdle

InitStreak ==
    /\ outcomes \in SeqsUpTo({0, 1}, MaxOutcomes)
    /\ streak = NotReturned
    /\ StreakIdle

CallGetModelStreak ==
    /\ streak = NotReturned
    /\ streak' = get_model_streak(outcomes)
    /\ UNCHANGED <<outcomes, weekVars, dbVars, reportVars, procVars, runVars>>

NextStreak == CallGetModelStreak

SpecStreak == InitStreak /\ [][NextStreak]_vars

\* C3: for a non-empty outcome sequence the streak's direction is the last
\* outcome and its count is the length of the maximal run of that outcome
\* ending at the last element, so 1 <= count <= length; one element gives 1.
C3_StreakIsTrailingRun ==
    (streak # NotReturned /\ outcomes # <<>>) =>
        LET n    == Len(outcomes)
            last == outcomes[n]
        IN  /\ streak.type = (IF last = 1 THEN "W" ELSE "L")
            /\ streak.count \in 1..n
            /\ \A i \in (n - streak.count + 1)..n : outcomes[i] = last
            /\ (streak.count < n => outcomes[n - streak.count] # last)
            /\ (n = 1 => streak.count = 1)

\* C3 witness: [win, win, loss, loss, loss] has been scanned and gave (loss, 3)
C3_Witness ==
    /\ outcomes = <<1, 1, 0, 0, 0>>
    /\ streak = [type |-> "L", count |-> 3]

(***************************************************************************)
(* Persistence layer as the weekly aggregator sees it.                     *)
(*                                                                         *)
(* Every query of the aggregator groups the predictions by model_name, so  *)
(* the table is kept as each model's rows in creation order. Under the     *)
(* report specification it holds the predictions whose game has a result,  *)
(* as rows [game_id, model_name, is_correct, confidence], where the games  *)
(* of a date are numbered and a game_id is <<game_date, number>>.          *)
(* model_stats is the table update_game_result recomputes.                 *)
(***************************************************************************)
\* the clamped confidences stored with a prediction that are tried
Confidences == {80}

\* the game dates tried: the last day of one week and the first of the next
GameDates == { Strftime([year |-> 2025, month |-> 1, day |-> 5]),
               Strftime([year |-> 2025, month |-> 1, day |-> 6]) }

\* the reference dates tried for the report: a Monday and a Wednesday
ReportDates == { Strftime([year |-> 2025, month |-> 1, day |-> 13]),
                 Strftime([year |-> 2025, month |-> 1, day |-> 15]) }

\* comparison of two date strings as SQLite compares TEXT: character by character
RECURSIVE TextLE(_, _, _)
TextLE(a, b, i) ==
    IF i > Len(a) THEN TRUE
    ELSE IF a[i] = b[i] THEN TextLE(a, b, i + 1)
    ELSE a[i] < b[i]

\* ROUND(100.0 * num / den, 1), in tenths of a percent (half rounds up)
Rate(num, den) == (2000 * num + den) \div (2 * den)

\* ROUND(AVG(x), 1) for a sum over n rows, in tenths
Avg(sum, n) == (20 * sum + n) \div (2 * n)

\* SUM(CASE WHEN is_correct = 1 THEN 1 ELSE 0 END)
RECURSIVE SumCorrect(_)
SumCorrect(rows) ==
    IF rows = <<>> THEN 0
    ELSE (IF Head(rows).is_correct = 1 THEN 1 ELSE 0) + SumCorrect(Tail(rows))

\* the sum behind AVG(confidence)
RECURSIVE SumConfidence(_)
SumConfidence(rows) ==
    IF rows = <<>> THEN 0 ELSE Head(rows).confidence + SumConfidence(Tail(rows))

\* is_correct IS NOT NULL: a NULL column is a field the row does not have
Resolved(r) == "is_correct" \in DOMAIN r

\* FROM predictions WHERE is_correct IS NOT NULL, the group of model m
RowsOf(preds, m) == SelectSeq(preds[m], Resolved)

\* the model names GROUP BY model_name yields
ModelsIn(preds) == { m \in DOMAIN preds : RowsOf(preds, m) # <<>> }

\* the SELECT of update_game_result: one aggregate row per model over the
\* predictions with a known result
StatRow(preds, m) ==
    LET rows == RowsOf(preds, m)
    IN  [model_name          |-> m,
         total_predictions   |-> Len(rows),
         correct_predictions |-> SumCorrect(rows),
         win_rate            |-> Rate(SumCorrect(rows), Len(rows)),
         avg_confidence      |-> Avg(SumConfidence(rows), Len(rows))]

\* (mutation of UpsertModelStats: ON CONFLICT DO NOTHING, a model's row is
\* written once and kept)
UpsertModelStats_KeepExisting(old, preds) ==
    old \cup { StatRow(preds, m) :
                  m \in { x \in ModelsIn(preds) : \A r \in old : r.model_name # x } }

\* (mutation of UpsertModelStats: ON CONFLICT adds the new counts to the
\* counts the row already holds)
UpsertModelStats_AddsToExisting(old, preds) ==
    { r \in old : r.model_name \notin ModelsIn(preds) }
        \cup { LET new  == StatRow(preds, m)
                   mine == { r \in old : r.model_name = m }
               IN  IF mine = {} THEN new
                   ELSE LET r == CHOOSE x \in mine : TRUE
                        IN  [new EXCEPT !.total_predictions = @ + r.total_predictions,
                                        !.correct_predictions = @ + r.correct_predictions]
               : m \in ModelsIn(preds) }

\* INSERT INTO model_stats ... ON CONFLICT(model_name) DO UPDATE
UpsertModelStats(old, preds) ==
    { r \in old : r.model_name \notin ModelsIn(preds) }
        \cup { StatRow(preds, m) : m \in ModelsIn(preds) }

\* every order of a set of rows in which win_rate never increases: what
\* ORDER BY win_rate DESC may return (rows with equal win_rate in any order)
RECURSIVE ByWinRateDesc(_)
ByWinRateDesc(S) ==
    IF S = {} THEN { <<>> }
    ELSE LET top == { r \in S : \A q \in S : r.win_rate >= q.win_rate }
         IN  UNION { { <<r>> \o rest : rest \in ByWinRateDesc(S \ {r}) } : r \in top }

\* get_model_stats(): SELECT * FROM model_stats ORDER BY win_rate DESC
get_model_stats == ByWinRateDesc(model_stats)

(***************************************************************************)
(* Queries weekly_stats.py imports from utils.database whose bodies are    *)
(* not among the sources; modelled from the design (sections 4.2 and 6).   *)
(***************************************************************************)
\* confidence above which a prediction counts as high-confidence
HighConfThreshold == 70

\* games.game_date of the game a prediction row belongs to
GameDateOf(r) == r.game_id[1]

InWindow(r, start_date, end_date) ==
    TextLE(start_date, GameDateOf(r), 1) /\ TextLE(GameDateOf(r), end_date, 1)

\* each model's predictions with a known result for games in the window
WindowRows(preds, start_date, end_date) ==
    [m \in DOMAIN preds |->
        SelectSeq(RowsOf(preds, m), LAMBDA r : InWindow(r, start_date, end_date))]

WeeklyRow(rows, m) ==
    LET mine == RowsOf(rows, m)
        high == SelectSeq(mine, LAMBDA r : r.confidence > HighConfThreshold)
    IN  [model_name          |-> m,
         total_predictions   |-> Len(mine),
         correct_predictions |-> SumCorrect(mine),
         win_rate            |-> Rate(SumCorrect(mine), Len(mine)),
         avg_confidence      |-> Avg(SumConfidence(mine), Len(mine)),
         high_conf_correct   |-> SumCorrect(high),
         high_conf_total     |-> Len(high)]

\* get_weekly_stats(start_date, end_date): one row per model with a resolved
\* prediction in the window, highest weekly win rate first
WeeklyStatsOf(preds, start_date, end_date) ==
    LET rows == WindowRows(preds, start_date, end_date)
    IN  ByWinRateDesc({ WeeklyRow(rows, m) : m \in ModelsIn(rows) })

get_weekly_stats(start_date, end_date) == WeeklyStatsOf(predictions, start_date, end_date)

\* (mutation of OutcomesOf: only the outcomes of the model's latest game date)
OutcomesOf_LatestDate(preds, m) ==
    LET rows == RowsOf(preds, m)
        last == SelectSeq(rows, LAMBDA r : GameDateOf(r) = GameDateOf(rows[Len(rows)]))
    IN  [i \in 1..Len(last) |-> last[i].is_correct]

\* a model's outcomes in the order of its predictions
OutcomesOf(preds, m) ==
    LET rows == RowsOf(preds, m)
    IN  [i \in 1..Len(rows) |-> rows[i].is_correct]

\* get_all_model_streaks(): the streak of every model that has predictions,
\* over its whole history
StreaksOf(preds) ==
    [m \in ModelsIn(preds) |-> get_model_streak(OutcomesOf(preds, m))]

get_all_model_streaks == StreaksOf(predictions)

\* get_total_games_in_range(start_date, end_date): distinct games with a
\* result in the window
TotalGamesOf(preds, start_date, end_date) ==
    LET rows == WindowRows(preds, start_date, end_date)
    IN  Cardinality(UNION { { rows[m][i].game_id : i \in 1..Len(rows[m]) } : m \in DOMAIN rows })

get_total_games_in_range(start_date, end_date) == TotalGamesOf(predictions, start_date, end_date)

(***************************************************************************)
(* calculate_weekly_report                                                 *)
(***************************************************************************)
Roster == <<"ChatGPT", "Claude", "Gemini", "Grok">>

\* str(n) for n >= 0: the decimal digits
RECURSIVE Digits(_)
Digits(n) == IF n < 10 THEN <<n>> ELSE Digits(n \div 10) \o <<n % 10>>

\* f"{correct}-{total - correct}"
Record(correct, total) == Digits(correct) \o <<"-">> \o Digits(total - correct)

\* (mutation of LeaderboardEntry: ranks count from 0, as enumerate does)
LeaderboardEntry_RankFromZero(i, stat) ==
    [rank                |-> i - 1,
     model_name          |-> stat.model_name,
     win_rate            |-> stat.win_rate,
     record              |-> Record(stat.correct_predictions, stat.total_predictions),
     total_predictions   |-> stat.total_predictions,
     correct_predictions |-> stat.correct_predictions]

\* one entry of report["overall_leaderboard"], for the i-th row (from 1)
LeaderboardEntry(i, stat) ==
    [rank                |-> i,
     model_name          |-> stat.model_name,
     win_rate            |-> stat.win_rate,
     record              |-> Record(stat.correct_predictions, stat.total_predictions),
     total_predictions   |-> stat.total_predictions,
     correct_predictions |-> stat.correct_predictions]

\* {s["model_name"]: s for s in stats}.get(model_name, {}): the last row of
\* that name as <<row>>, or <<>> for the empty dict
RECURSIVE ByModel(_, _)
ByModel(stats, model_name) ==
    IF stats = <<>> THEN <<>>
    ELSE IF stats[Len(stats)].model_name = model_name THEN <<stats[Len(stats)]>>
    ELSE ByModel(SubSeq(stats, 1, Len(stats) - 1), model_name)

\* (mutation of WeeklyLeader: the last row is taken for the leader)
WeeklyLeader_LastRow(weekly_stats) ==
    IF weekly_stats # <<>> THEN weekly_stats[Len(weekly_stats)].model_name ELSE None

\* weekly_stats[0]["model_name"] if weekly_stats else None
WeeklyLeader(weekly_stats) ==
    IF weekly_stats # <<>> THEN weekly_stats[1].model_name ELSE None

\* (mutation of StreakOf: a model without an entry starts as a win streak of 0)
StreakOf_WinDefault(streaks, model_name) ==
    IF model_name \in DOMAIN streaks THEN streaks[model_name]
    ELSE [type |-> "W", count |-> 0]

\* (mutation of StreakOf: the lookup never finds the model's entry)
StreakOf_NeverFound(streaks, model_name) == [type |-> None, count |-> 0]

\* streaks.get(model_name, {"type": None, "count": 0})
StreakOf(streaks, model_name) ==
    IF model_name \in DOMAIN streaks THEN streaks[model_name]
    ELSE [type |-> None, count |-> 0]

\* (mutation of StreakIndicators: a streak of two already counts)
StreakIndicators_FromTwo(model_streak) ==
    IF model_streak.type = "W" /\ model_streak.count >= 2 THEN <<"fire">>
    ELSE IF model_streak.type = "L" /\ model_streak.count >= 2 THEN <<"ice">>
    ELSE <<>>

StreakIndicators(model_streak) ==
    IF model_streak.type = "W" /\ model_streak.count >= 3 THEN <<"fire">>
    ELSE IF model_streak.type = "L" /\ model_streak.count >= 3 THEN <<"ice">>
    ELSE <<>>

\* (mutation of Indicators: the crown goes to every card once there is a leader)
Indicators_CrownForAll(model_streak, model_name, weekly_leader) ==
    StreakIndicators(model_streak)
        \o (IF weekly_leader # None THEN <<"crown">> ELSE <<>>)

Indicators(model_streak, model_name, weekly_leader) ==
    StreakIndicators(model_streak)
        \o (IF model_name = weekly_leader THEN <<"crown">> ELSE <<>>)

\* (mutation of HighConfAccuracy: 0 instead of None without high-confidence
\* predictions)
HighConfAccuracy_ZeroForNone(weekly) ==
    LET high_conf_correct == IF weekly = <<>> THEN 0 ELSE weekly[1].high_conf_correct
        high_conf_total   == IF weekly = <<>> THEN 0 ELSE weekly[1].high_conf_total
    IN  IF high_conf_total > 0 THEN { Rate(high_conf_correct, high_conf_total) } ELSE {0}

\* round(100 * high_conf_correct / high_conf_total, 1) if high_conf_total > 0
\* else None; an optional number is the set of at most one number
HighConfAccuracy(weekly) ==
    LET high_conf_correct == IF weekly = <<>> THEN 0 ELSE weekly[1].high_conf_correct
        high_conf_total   == IF weekly = <<>> THEN 0 ELSE weekly[1].high_conf_total
    IN  IF high_conf_total > 0 THEN { Rate(high_conf_correct, high_conf_total) } ELSE {}

WeeklyRecord(weekly) ==
    IF weekly # <<>>
    THEN Record(weekly[1].correct_predictions, weekly[1].total_predictions)
    ELSE <<0, "-", 0>>

\* (mutation of ReportCard: a week without predictions resets the streak)
ReportCard_StreakOfTheWeek(model_name, weekly, model_streak, weekly_leader) ==
    [model_name         |-> model_name,
     weekly_record      |-> WeeklyRecord(weekly),
     weekly_win_rate    |-> IF weekly = <<>> THEN 0 ELSE weekly[1].win_rate,
     weekly_predictions |-> IF weekly = <<>> THEN 0 ELSE weekly[1].total_predictions,
     streak             |-> IF weekly = <<>> THEN [type |-> None, count |-> 0] ELSE model_streak,
     indicators         |-> Indicators(model_streak, model_name, weekly_leader),
     high_conf_accuracy |-> HighConfAccuracy(weekly),
     avg_confidence     |-> IF weekly = <<>> THEN 0 ELSE weekly[1].avg_confidence]

ReportCard(model_name, weekly, model_streak, weekly_leader) ==
    [model_name         |-> model_name,
     weekly_record      |-> WeeklyRecord(weekly),
     weekly_win_rate    |-> IF weekly = <<>> THEN 0 ELSE weekly[1].win_rate,
     weekly_predictions |-> IF weekly = <<>> THEN 0 ELSE weekly[1].total_predictions,
     streak             |-> model_streak,
     indicators         |-> Indicators(model_streak, model_name, weekly_leader),
     high_conf_accuracy |-> HighConfAccuracy(weekly),
     avg_confidence     |-> IF weekly = <<>> THEN 0 ELSE weekly[1].avg_confidence]

\* (mutation of CardModels: cards for the models found in the weekly stats)
CardModels_Discovered(weekly_stats) ==
    [k \in 1..Len(weekly_stats) |-> weekly_stats[k].model_name]

\* the model names report cards are built for, in order
CardModels(weekly_stats) == Roster

ReportCards(weekly_stats, streaks) ==
    LET names == CardModels(weekly_stats)
    IN  [k \in 1..Len(names) |->
            ReportCard(names[k], ByModel(weekly_stats, names[k]),
                       StreakOf(streaks, names[k]), WeeklyLeader(weekly_stats))]

calculate_weekly_report(start_date, end_date, overall_stats, weekly_stats, streaks, total_games) ==
    [week_start          |-> start_date,
     week_end            |-> end_date,
     total_games         |-> total_games,
     overall_leaderboard |-> [i \in 1..Len(overall_stats) |-> LeaderboardEntry(i, overall_stats[i])],
     weekly_report_cards |-> ReportCards(weekly_stats, streaks)]

(***************************************************************************)
(* The report specification: results come in, then a weekly report is      *)
(* built from what the persistence layer holds.                            *)
(***************************************************************************)
InitReport == WeekVarsIdle /\ StreakVarsIdle /\ DbVarsIdle /\ ReportVarsIdle /\ ProcVarsIdle /\ RunVarsIdle

RECURSIVE SumLen(_, _)
SumLen(preds, models) ==
    IF models = {} THEN 0
    ELSE LET m == CHOOSE x \in models : TRUE
         IN  Len(preds[m]) + SumLen(preds, models \ {m})

\* COUNT(*) over the table
TotalRows(preds) == SumLen(preds, DOMAIN preds)

\* the game of date d that model m has not predicted yet: UNIQUE(game_id,
\* model_name) allows one prediction per game and model
NextGameOf(preds, m, d) ==
    <<d, 1 + Len(SelectSeq(preds[m], LAMBDA r : r.game_id[1] = d))>>

\* a stored prediction of model m for a game on date d gets its result:
\* insert_prediction earlier, then update_game_result marks it and recomputes
\* model_stats. A model's predictions are made, and get their results, in
\* the order of the game dates.
RecordResolved(models, confidences, max_rows) ==
    /\ report = NotReturned
    /\ TotalRows(predictions) < max_rows
    /\ \E m \in models, d \in GameDates, ok \in {0, 1}, c \in confidences :
        /\ predictions[m] # <<>> => TextLE(predictions[m][Len(predictions[m])].game_id[1], d, 1)
        /\ LET row   == [game_id |-> NextGameOf(predictions, m, d), model_name |-> m,
                         is_correct |-> ok, confidence |-> c]
               after == [predictions EXCEPT ![m] = Append(@, row)]
           IN  /\ predictions' = after
               /\ model_stats' = UpsertModelStats(model_stats, after)
    /\ UNCHANGED <<weekVars, streakVars, games, reportVars, procVars, runVars>>

RecordResolvedPrediction == RecordResolved(PredictionModels, Confidences, MaxPredictions)

\* the same with two of the models over a longer history
SeasonModels == {"Claude", "Grok"}
RecordSeasonPrediction == RecordResolved(SeasonModels, Confidences, MaxSeason)

\* the same with two of the models and confidences on both sides of the
\* high-confidence threshold
MixedConfidences == {60, 80}
RecordMixedPrediction == RecordResolved(SeasonModels, MixedConfidences, MaxMixed)

CallCalculateWeeklyReport ==
    /\ report = NotReturned
    /\ \E ref \in ReportDates :
        LET range       == get_week_date_range(ref)
            streaks     == get_all_model_streaks
            total_games == get_total_games_in_range(range[1], range[2])
        IN  \E overall_stats \in get_model_stats, weekly_stats \in get_weekly_stats(range[1], range[2]) :
                /\ reference_date' = ref
                /\ week_range' = range
                /\ overall_stats_read' = overall_stats
                /\ weekly_stats_read' = weekly_stats
                /\ report' = calculate_weekly_report(range[1], range[2], overall_stats,
                                                     weekly_stats, streaks, total_games)
    /\ UNCHANGED <<streakVars, dbVars, callout, procVars, runVars>>

NextReport == RecordResolvedPrediction \/ CallCalculateWeeklyReport

SpecReport == InitReport /\ [][NextReport]_vars

NextMixed == RecordMixedPrediction \/ CallCalculateWeeklyReport

SpecMixed == InitReport /\ [][NextMixed]_vars

(***************************************************************************)
(* Claims about calculate_weekly_report                                    *)
(***************************************************************************)
Returned == report # NotReturned
Cards == report.weekly_report_cards
CardIndices == 1..Len(Cards)
Carries(card, indicator) == \E i \in 1..Len(card.indicators) : card.indicators[i] = indicator
NoStreak == [type |-> None, count |-> 0]

\* the model has no prediction with a known result inside the report's window
NoWeeklyRowOf(m) ==
    \A i \in 1..Len(predictions[m]) :
        ~InWindow(predictions[m][i], report.week_start, report.week_end)

\* st is the trailing run of the outcome sequence o
IsTrailingRun(st, o) ==
    IF o = <<>> THEN st = NoStreak
    ELSE LET n == Len(o)
         IN  /\ st.type = (IF o[n] = 1 THEN "W" ELSE "L")
             /\ st.count \in 1..n
             /\ \A i \in (n - st.count + 1)..n : o[i] = o[n]
             /\ (st.count < n => o[n - st.count] # o[n])

\* C4: a model without resolved predictions has no streak entry and its
\* report card carries streak type none and count 0.
C4_NoHistoryNoStreak ==
    Returned =>
        \A k \in CardIndices :
            Cards[k].model_name \notin ModelsIn(predictions) => Cards[k].streak = NoStreak

\* C4 witness: a report in which one model has history and another has none
C4_Witness ==
    /\ Returned
    /\ ModelsIn(predictions) # {}
    /\ \E k \in CardIndices :
          Cards[k].model_name \notin ModelsIn(predictions) /\ Cards[k].streak = NoStreak

\* C5: no card is both hot and cold; a card is hot exactly on a win streak
\* of at least 3 and cold exactly on a loss streak of at least 3.
C5_HotColdExclusive ==
    Returned =>
        \A k \in CardIndices :
            /\ ~(Carries(Cards[k], "fire") /\ Carries(Cards[k], "ice"))
            /\ Carries(Cards[k], "fire") <=> (Cards[k].streak.type = "W" /\ Cards[k].streak.count >= 3)
            /\ Carries(Cards[k], "ice") <=> (Cards[k].streak.type = "L" /\ Cards[k].streak.count >= 3)

\* C5 witness: a report with a hot card on a win streak of exactly 3
C5_Witness ==
    /\ Returned
    /\ \E k \in CardIndices :
          /\ Cards[k].streak = [type |-> "W", count |-> 3]
          /\ Carries(Cards[k], "fire")
          /\ ~Carries(Cards[k], "ice")

Crowned == { k \in CardIndices : Carries(Cards[k], "crown") }
SomeWeeklyPrediction ==
    \E m \in PredictionModels : \E i \in 1..Len(predictions[m]) :
        InWindow(predictions[m][i], report.week_start, report.week_end)

\* C6: exactly one card carries the crown when some model has a prediction
\* in the window, and none does when no model has one.
C6_OneLeaderOrNone ==
    Returned =>
        Cardinality(Crowned) = (IF SomeWeeklyPrediction THEN 1 ELSE 0)

\* C6 witness: a report with three models in the window, the first two tied
\* on the weekly win rate, and one crown
C6_Witness ==
    /\ Returned
    /\ Len(weekly_stats_read) = 3
    /\ weekly_stats_read[1].win_rate = weekly_stats_read[2].win_rate
    /\ Cardinality(Crowned) = 1

\* C7: the crowned model's weekly win rate is at least that of every model
\* with a weekly prediction, and among the models tied on the highest rate
\* it is the first in the order the weekly stats were returned.
C7_LeaderHasHighestRate ==
    Returned =>
        \A k \in Crowned :
            /\ \A j \in CardIndices :
                  Cards[j].weekly_predictions >= 1 =>
                      Cards[k].weekly_win_rate >= Cards[j].weekly_win_rate
            /\ \A i \in 1..Len(weekly_stats_read) :
                  weekly_stats_read[i].win_rate >= Cards[k].weekly_win_rate =>
                      \E h \in 1..i : weekly_stats_read[h].model_name = Cards[k].model_name

\* C7 witness: the crown is on a card whose rate beats another active model
C7_Witness ==
    /\ Returned
    /\ \E k \in Crowned : \E j \in CardIndices :
          /\ Cards[j].weekly_predictions >= 1
          /\ Cards[k].weekly_win_rate > Cards[j].weekly_win_rate

\* C8: a roster model without predictions in the window has weekly record
\* "0-0", weekly win rate 0 and weekly prediction count 0, and its streak is
\* still the trailing run of its whole history.
C8_EmptyWeekKeepsStreak ==
    Returned =>
        \A k \in CardIndices :
            NoWeeklyRowOf(Cards[k].model_name) =>
                /\ Cards[k].weekly_record = <<0, "-", 0>>
                /\ Cards[k].weekly_win_rate = 0
                /\ Cards[k].weekly_predictions = 0
                /\ IsTrailingRun(Cards[k].streak, OutcomesOf(predictions, Cards[k].model_name))

\* C8 witness: a model with an empty week and a streak of 2 from outside it
C8_Witness ==
    /\ Returned
    /\ \E k \in CardIndices :
          /\ NoWeeklyRowOf(Cards[k].model_name)
          /\ Cards[k].weekly_record = <<0, "-", 0>>
          /\ Cards[k].streak.count = 2

AbsentFromWeekly(m) ==
    \A i \in 1..Len(weekly_stats_read) : weekly_stats_read[i].model_name # m

\* C9 as stated: a roster model absent from the weekly stats has a zero
\* record, no streak type and no indicators.
C9_AbsentCardHasNoStreak ==
    Returned =>
        \A k \in CardIndices :
            AbsentFromWeekly(Cards[k].model_name) =>
                /\ Cards[k].weekly_record = <<0, "-", 0>>
                /\ Cards[k].streak.type = None
                /\ Cards[k].indicators = <<>>

\* C9 amended: a roster model absent from the weekly stats has a zero record
\* and never the crown; its streak and hot/cold indicators are those of its
\* whole history, so it has no streak type and no indicators exactly when it
\* has no resolved prediction at all.
C9_AbsentCardZeroRecord ==
    Returned =>
        \A k \in CardIndices :
            AbsentFromWeekly(Cards[k].model_name) =>
                /\ Cards[k].weekly_record = <<0, "-", 0>>
                /\ Cards[k].weekly_win_rate = 0
                /\ Cards[k].weekly_predictions = 0
                /\ ~Carries(Cards[k], "crown")
                /\ (Cards[k].streak.type = None /\ Cards[k].indicators = <<>>)
                      <=> (Cards[k].model_name \notin ModelsIn(predictions))

\* C9 witness: an absent model that is on a loss streak of 3 and cold
C9_Witness ==
    /\ Returned
    /\ \E k \in CardIndices :
          /\ AbsentFromWeekly(Cards[k].model_name)
          /\ Cards[k].streak = [type |-> "L", count |-> 3]
          /\ Cards[k].indicators = <<"ice">>

\* C10: a report has exactly four cards, for ChatGPT, Claude, Gemini and
\* Grok in this order, whichever models the persistence layer returned.
C10_FixedRoster ==
    Returned =>
        /\ Len(Cards) = 4
        /\ [k \in 1..4 |-> Cards[k].model_name] = <<"ChatGPT", "Claude", "Gemini", "Grok">>

\* C10 witness: a report built when only Grok and Claude have rows, Grok first
C10_Witness ==
    /\ Returned
    /\ Len(Cards) = 4
    /\ Len(weekly_stats_read) = 2
    /\ weekly_stats_read[1].model_name = "Grok"
    /\ weekly_stats_read[2].model_name = "Claude"

(***************************************************************************)
(* Claims about the overall leaderboard                                    *)
(***************************************************************************)
Leaderboard == report.overall_leaderboard

\* C11: the overall leaderboard has one entry per model_stats row, in the
\* order get_model_stats returned the rows; the entry at position i (from 1)
\* has rank i and the record "<correct>-<total minus correct>".
C11_LeaderboardRanksByPosition ==
    Returned =>
        /\ Len(Leaderboard) = Cardinality(model_stats)
        /\ { overall_stats_read[i] : i \in 1..Len(overall_stats_read) } = model_stats
        /\ Len(Leaderboard) = Len(overall_stats_read)
        /\ \A i \in 1..Len(Leaderboard) :
              /\ Leaderboard[i].rank = i
              /\ Leaderboard[i].model_name = overall_stats_read[i].model_name
              /\ Leaderboard[i].record =
                    << overall_stats_read[i].correct_predictions, "-",
                       overall_stats_read[i].total_predictions
                           - overall_stats_read[i].correct_predictions >>

\* C11 witness: a leaderboard of two, a 2-0 model ranked 1 ahead of a 0-1 model
C11_Witness ==
    /\ Returned
    /\ Len(Leaderboard) = 2
    /\ Leaderboard[1].rank = 1 /\ Leaderboard[1].record = <<2, "-", 0>>
    /\ Leaderboard[2].rank = 2 /\ Leaderboard[2].record = <<0, "-", 1>>

(***************************************************************************)
(* The tables under insert_game, insert_prediction and update_game_result. *)
(* A games row is [game_id, game_date] and gains the field winner with its *)
(* result (the scores are written with it); a predictions row is           *)
(* [game_id, model_name, predicted_winner, confidence] and gains the field *)
(* is_correct when its game's result is recorded.                          *)
(***************************************************************************)
\* the game ids, models and teams the calls are tried with
DbGameIds == { <<d, 1>> : d \in GameDates }
DbModels == {"Claude", "Grok"}
Teams == {"home", "away"}
\* the parsed responses tried: a confident pick of the home team and a less
\* confident pick of the away team
DbPicks == { [predicted_winner |-> "home", confidence |-> 80],
             [predicted_winner |-> "away", confidence |-> 60] }

\* get_connection() opens the connection and issues no PRAGMA foreign_keys;
\* SQLite does not enforce FOREIGN KEY clauses unless that pragma is on
ForeignKeysEnforced == FALSE

StoredGameIds(gs) == { g.game_id : g \in gs }

\* the game dictionary fetch_games_for_date builds from an event: it has no
\* vegas_favorite and no vegas_spread key (teams are left out of the rows)
FetchedGame(game_id) == [game_id |-> game_id, game_date |-> game_id[1]]

OddsColumns == {"vegas_favorite", "vegas_spread"}

\* insert_game: INSERT ... ON CONFLICT(game_id) DO UPDATE SET vegas_favorite
\* = excluded.vegas_favorite, vegas_spread = excluded.vegas_spread; the
\* excluded values are game_data.get(...), NULL when the key is missing
insert_game(gs, game_data) ==
    IF game_data.game_id \in StoredGameIds(gs)
    THEN { IF g.game_id = game_data.game_id
           THEN [k \in OddsColumns \cap DOMAIN game_data |-> game_data[k]]
                    @@ [k \in DOMAIN g \ OddsColumns |-> g[k]]
           ELSE g : g \in gs }
    ELSE gs \cup { game_data }

HasRow(preds, game_id, m) ==
    \E i \in 1..Len(preds[m]) : preds[m][i].game_id = game_id

\* ON CONFLICT(game_id, model_name) DO UPDATE SET predicted_winner,
\* confidence, reasoning: the other columns of the row stay
ReplacePick(r, prediction) ==
    IF Resolved(r)
    THEN [game_id |-> r.game_id, model_name |-> r.model_name,
          predicted_winner |-> prediction.predicted_winner,
          confidence |-> prediction.confidence, is_correct |-> r.is_correct]
    ELSE [game_id |-> r.game_id, model_name |-> r.model_name,
          predicted_winner |-> prediction.predicted_winner,
          confidence |-> prediction.confidence]

\* (mutation of insert_prediction: a plain INSERT without the conflict clause
\* and without the UNIQUE constraint)
insert_prediction_AlwaysAppends(preds, gs, prediction) ==
    [preds EXCEPT ![prediction.model_name] = Append(@, prediction)]

\* insert_prediction: the predictions table after the call
insert_prediction(preds, gs, prediction) ==
    LET m == prediction.model_name
    IN  IF ForeignKeysEnforced /\ prediction.game_id \notin StoredGameIds(gs)
        THEN preds
        ELSE IF HasRow(preds, prediction.game_id, m)
        THEN [preds EXCEPT ![m] =
                 [i \in 1..Len(@) |->
                     IF @[i].game_id = prediction.game_id
                     THEN ReplacePick(@[i], prediction) ELSE @[i]]]
        ELSE [preds EXCEPT ![m] = Append(@, prediction)]

\* UPDATE games SET winner = ?, home_score = ?, away_score = ? WHERE game_id = ?
SetGameResult(gs, game_id, winner) ==
    { IF g.game_id = game_id THEN [winner |-> winner] @@ g ELSE g : g \in gs }

\* SET is_correct = CASE WHEN predicted_winner = ? THEN 1 ELSE 0 END
Mark(r, winner) ==
    [game_id |-> r.game_id, model_name |-> r.model_name,
     predicted_winner |-> r.predicted_winner, confidence |-> r.confidence,
     is_correct |-> IF r.predicted_winner = winner THEN 1 ELSE 0]

\* (mutation of MarkPredictions: the WHERE clause is missing, every stored
\* prediction is marked against this winner)
MarkPredictions_EveryGame(preds, game_id, winner) ==
    [m \in DOMAIN preds |-> [i \in 1..Len(preds[m]) |-> Mark(preds[m][i], winner)]]

\* UPDATE predictions ... WHERE game_id = ?
MarkPredictions(preds, game_id, winner) ==
    [m \in DOMAIN preds |->
        [i \in 1..Len(preds[m]) |->
            IF preds[m][i].game_id = game_id THEN Mark(preds[m][i], winner)
            ELSE preds[m][i]]]

\* update_game_result: the tables <<games, predictions, model_stats>> after
\* the three statements and the commit
update_game_result(tables, game_id, winner) ==
    LET marked == MarkPredictions(tables[2], game_id, winner)
    IN  << SetGameResult(tables[1], game_id, winner),
           marked,
           UpsertModelStats(tables[3], marked) >>

InitDb == WeekVarsIdle /\ StreakVarsIdle /\ DbVarsIdle /\ ReportVarsIdle /\ ProcVarsIdle /\ RunVarsIdle

\* fetch_games stores a game
CallInsertGame ==
    /\ \E game_id \in DbGameIds : games' = insert_game(games, FetchedGame(game_id))
    /\ UNCHANGED <<weekVars, streakVars, predictions, model_stats, reportVars, procVars, runVars>>

\* a prediction is stored, for a stored game or for a game_id that is not
\* (yet) in the games table
CallInsertPrediction ==
    /\ \E game_id \in DbGameIds, m \in DbModels, pick \in DbPicks :
          predictions' = insert_prediction(predictions, games,
                             [game_id |-> game_id, model_name |-> m,
                              predicted_winner |-> pick.predicted_winner,
                              confidence |-> pick.confidence])
    /\ UNCHANGED <<weekVars, streakVars, games, model_stats, reportVars, procVars, runVars>>

\* update_game_result for a stored game (update_results_for_date passes the
\* games it read from the table): the three statements, then one commit
CallUpdateGameResult ==
    /\ \E g \in games, winner \in Teams :
          LET after == update_game_result(<<games, predictions, model_stats>>, g.game_id, winner)
          IN  /\ games' = after[1]
              /\ predictions' = after[2]
              /\ model_stats' = after[3]
    /\ UNCHANGED <<weekVars, streakVars, reportVars, procVars, runVars>>

NextDb == CallInsertGame \/ CallInsertPrediction \/ CallUpdateGameResult

SpecDb == InitDb /\ [][NextDb]_vars

(***************************************************************************)
(* Claims about the tables                                                 *)
(***************************************************************************)
AllPredictions ==
    UNION { { predictions[m][i] : i \in 1..Len(predictions[m]) } : m \in DOMAIN predictions }

\* C12: every model's model_stats row has total_predictions equal to the
\* number of the model's predictions with non-null is_correct and
\* correct_predictions equal to the number of them with is_correct = 1; a
\* model without a row has no such prediction, and no model has two rows.
C12_ModelStatsMatchPredictions ==
    \A m \in DOMAIN predictions :
        LET known   == { r \in AllPredictions : r.model_name = m /\ Resolved(r) }
            correct == { r \in known : r.is_correct = 1 }
            mine    == { r \in model_stats : r.model_name = m }
        IN  /\ Cardinality(mine) <= 1
            /\ mine = {} => known = {}
            /\ \A r \in mine :
                  /\ r.total_predictions = Cardinality(known)
                  /\ r.correct_predictions = Cardinality(correct)

\* C12 witness: a model with two resolved predictions, one of them correct,
\* and the row that says so
C12_Witness ==
    \E r \in model_stats :
        /\ r.total_predictions = 2 /\ r.correct_predictions = 1
        /\ Cardinality({ p \in AllPredictions : p.model_name = r.model_name /\ Resolved(p) }) = 2

WinnerOf(game_id) ==
    { g.winner : g \in { x \in games : x.game_id = game_id /\ "winner" \in DOMAIN x } }

\* C13: there is at most one stored prediction per (game_id, model_name)
\* pair, and no call removes or moves a stored row: a repeated
\* insert_prediction changes the pick and the confidence of the row that is
\* already there and adds none.
C13_OnePredictionPerGameAndModel ==
    /\ [](\A m \in DOMAIN predictions : \A i, j \in 1..Len(predictions[m]) :
              predictions[m][i].game_id = predictions[m][j].game_id => i = j)
    /\ [][\A m \in DOMAIN predictions :
              /\ Len(predictions'[m]) >= Len(predictions[m])
              /\ \A i \in 1..Len(predictions[m]) :
                    /\ predictions'[m][i].game_id = predictions[m][i].game_id
                    /\ predictions'[m][i].model_name = predictions[m][i].model_name]_vars

\* C13 witness: a prediction marked correct whose stored pick is no longer
\* the winner and whose confidence is that of the later pick: the row was
\* rewritten in place by a second insert_prediction after the result
C13_Witness ==
    \E r \in AllPredictions :
        /\ Resolved(r) /\ r.is_correct = 1
        /\ WinnerOf(r.game_id) = {"home"}
        /\ r.predicted_winner = "away" /\ r.confidence = 60
        /\ Cardinality({ p \in AllPredictions : p.model_name = r.model_name }) = 2

\* C14 as stated: every stored prediction's game_id is the game_id of a
\* stored game.
C14_PredictionsReferenceStoredGames ==
    \A r \in AllPredictions : r.game_id \in StoredGameIds(games)

NoReply == [kind |-> "no reply"]
NoJson == [kind |-> "no json"]
Number(tenths) == [kind |-> "number", tenths |-> tenths]
Missing == [kind |-> "missing"]
NotANumber == [kind |-> "text"]
Infinite == [kind |-> "infinity"]

\* the confidences of the replies tried: -5, 49.9, 75.5, 100.9 and 250, and
\* the three that are no finite number
ReplyConfidences ==
    { Number(t) : t \in {-50, 499, 755, 1009, 2500} } \cup {Missing, NotANumber, Infinite}

\* the replies tried: the home team with each confidence, and a winner that
\* is neither team
Replies ==
    {NoReply, NoJson}
        \cup { [kind |-> "json", winner |-> "home", confidence |-> c] : c \in ReplyConfidences }
        \cup { [kind |-> "json", winner |-> "other", confidence |-> Number(755)] }

\* int(x) of a number in tenths: truncation towards zero
IntOf(tenths) == IF tenths >= 0 THEN tenths \div 10 ELSE -((-tenths) \div 10)

Min(a, b) == IF a <= b THEN a ELSE b
Max(a, b) == IF a >= b THEN a ELSE b

\* (mutation of Clamp: only the upper limit is applied)
Clamp_UpperOnly(n) == Min(100, n)

\* max(50, min(100, n))
Clamp(n) == Max(50, Min(100, n))

ParsedNone == [status |-> "none"]
ParseRaised == [status |-> "raised"]

\* parse_prediction_response: the parsed prediction, None, or an exception
\* the function does not catch (OverflowError of int(inf))
parse_prediction_response(reply) ==
    IF reply.kind # "json" THEN ParsedNone
    ELSE IF reply.winner \notin Teams THEN ParsedNone
    ELSE IF reply.confidence = NotANumber THEN ParsedNone
    ELSE IF reply.confidence = Infinite THEN ParseRaised
    ELSE [status     |-> "ok",
          winner     |-> reply.winner,
          confidence |-> IF reply.confidence = Missing THEN Clamp(50)
                         ELSE Clamp(IntOf(reply.confidence.tenths))]

\* the game get_predictions_for_date works on
IngestGameId == CHOOSE id \in DbGameIds : \A other \in DbGameIds : TextLE(id[1], other[1], 1)

\* get_predictions_for_game(game_id)
get_predictions_for_game(preds, game_id) ==
    { r \in UNION { { preds[m][i] : i \in 1..Len(preds[m]) } : m \in DOMAIN preds } :
          r.game_id = game_id }

\* for pred in predictions: insert_prediction(pred)
RECURSIVE InsertAll(_, _, _)
InsertAll(preds, gs, found) ==
    IF found = <<>> THEN preds
    ELSE InsertAll(insert_prediction(preds, gs, Head(found)), gs, Tail(found))

InitIngest ==
    /\ WeekVarsIdle /\ StreakVarsIdle /\ ReportVarsIdle /\ ProcVarsIdle /\ RunVarsIdle
    /\ games = insert_game({}, FetchedGame(IngestGameId))
    /\ predictions = NoPredictions
    /\ model_stats = {}

\* (mutation of AlreadyPredicted: the check before querying is missing)
AlreadyPredicted_Never(existing) == FALSE

\* if len(existing) >= 4: continue
AlreadyPredicted(existing) == Cardinality(existing) >= 4

\* get_predictions_for_date reaches a game that does not have its
\* predictions yet and starts querying the models
StartGame ==
    /\ ~ingest.running
    /\ \E g \in games :
          /\ ~AlreadyPredicted(get_predictions_for_game(predictions, g.game_id))
          /\ ingest' = [running |-> TRUE, game_id |-> g.game_id, next |-> 1, found |-> <<>>]
    /\ UNCHANGED <<weekVars, streakVars, dbVars, reportVars, txn, reads, runVars>>

\* get_predictions_for_date reaches a game that has its predictions and
\* goes on to the next game
SkipGame ==
    /\ ~ingest.running
    /\ \E g \in games :
          /\ AlreadyPredicted(get_predictions_for_game(predictions, g.game_id))
          /\ ingest' = [running |-> FALSE, skipped |-> g.game_id]
    /\ UNCHANGED <<weekVars, streakVars, dbVars, reportVars, txn, reads, runVars>>

\* one turn of the loop of get_all_predictions_for_game: the next model is
\* queried and its reply parsed
QueryModel ==
    /\ ingest.running
    /\ ingest.next <= Len(Roster)
    /\ \E reply \in Replies :
          LET parsed == parse_prediction_response(reply)
          IN  IF reply = NoReply \/ parsed = ParsedNone
              THEN ingest' = [ingest EXCEPT !.next = @ + 1]
              ELSE IF parsed = ParseRaised
              THEN ingest' = NotRunning
              ELSE ingest' = [ingest EXCEPT
                                 !.next = @ + 1,
                                 !.found = Append(@, [game_id          |-> ingest.game_id,
                                                      model_name       |-> Roster[ingest.next],
                                                      predicted_winner |-> parsed.winner,
                                                      confidence       |-> parsed.confidence])]
    /\ UNCHANGED <<weekVars, streakVars, dbVars, reportVars, txn, reads, runVars>>

\* the predictions collected for the game are stored
StoreFound ==
    /\ ingest.running
    /\ ingest.next > Len(Roster)
    /\ predictions' = InsertAll(predictions, games, ingest.found)
    /\ ingest' = NotRunning
    /\ UNCHANGED <<weekVars, streakVars, games, model_stats, reportVars, txn, reads, runVars>>

NextIngest == StartGame \/ SkipGame \/ QueryModel \/ StoreFound

SpecIngest == InitIngest /\ [][NextIngest]_vars

\* C15: every stored prediction has a confidence between 50 and 100; a
\* reply whose confidence number is below 50 is parsed to 50 and one whose
\* finite confidence number is above 100 to 100.
C15_ConfidenceWithinBounds ==
    /\ \A r \in AllPredictions : r.confidence >= 50 /\ r.confidence <= 100
    /\ ingest.running =>
          \A i \in 1..Len(ingest.found) :
              ingest.found[i].confidence >= 50 /\ ingest.found[i].confidence <= 100
    /\ \A reply \in Replies :
          (reply.kind = "json" /\ reply.winner \in Teams /\ reply.confidence.kind = "number") =>
              LET parsed == parse_prediction_response(reply)
              IN  /\ parsed.status = "ok"
                  /\ reply.confidence.tenths < 500 => parsed.confidence = 50
                  /\ reply.confidence.tenths > 1000 => parsed.confidence = 100

\* C15 witness: predictions stored with the confidences 50, 75 and 100, none
\* of which was the number of a reply
C15_Witness ==
    /\ ~ingest.running
    /\ { r.confidence : r \in AllPredictions } = {50, 75, 100}

(***************************************************************************)
(* Claims about rates and streaks on the report cards                      *)
(***************************************************************************)
\* the model's predictions inside the report's window with a confidence
\* above the high-confidence threshold
WeeklyHighConf(m) ==
    SelectSeq(predictions[m],
              LAMBDA r : InWindow(r, report.week_start, report.week_end)
                           /\ r.confidence > HighConfThreshold)

\* C17: a card's high-confidence accuracy is null exactly when the model
\* has no high-confidence prediction in the window (a model without weekly
\* row included) and is otherwise the rounded share of the correct ones; a
\* model without predictions in the window has weekly win rate 0.
C17_RatesGuardZeroDenominator ==
    Returned =>
        \A k \in CardIndices :
            LET high == WeeklyHighConf(Cards[k].model_name)
                hits == SelectSeq(high, LAMBDA r : r.is_correct = 1)
            IN  /\ (Cards[k].high_conf_accuracy = {}) <=> (Len(high) = 0)
                /\ Len(high) > 0 =>
                      Cards[k].high_conf_accuracy
                          = { (2000 * Len(hits) + Len(high)) \div (2 * Len(high)) }
                /\ NoWeeklyRowOf(Cards[k].model_name) => Cards[k].weekly_win_rate = 0

\* C17 witness: one report with a card of a model that has weekly
\* predictions but none of high confidence (accuracy null), a card with a
\* computed accuracy, and a card of a model without weekly predictions
C17_Witness ==
    /\ Returned
    /\ \E k \in CardIndices :
          Cards[k].weekly_predictions >= 1 /\ Cards[k].high_conf_accuracy = {}
    /\ \E k \in CardIndices : Cards[k].high_conf_accuracy = {500}
    /\ \E k \in CardIndices :
          Cards[k].weekly_predictions = 0 /\ Cards[k].high_conf_accuracy = {}

(***************************************************************************)
(* format_streak_callout. The returned string is kept as the sequence of   *)
(* the sentences joined with " "; a sentence is a record of its wording    *)
(* and of the model name and count formatted into it.                      *)
(***************************************************************************)
FireSentence(card) ==
    [model |-> card.model_name, text |-> "{model} is ON FIRE with {count} wins in a row!",
     count |-> card.streak.count]
IceSentence(card) ==
    [model |-> card.model_name, text |-> "{model} is ICE COLD with {count} straight losses!",
     count |-> card.streak.count]
DominatedSentence(card) ==
    [model |-> card.model_name, text |-> "{model} dominated this week!"]
NeutralSentence == [text |-> "It's anyone's game!"]

\* (mutation of MaxByWeeklyWinRate: the first card with any weekly win, or
\* the first card)
MaxByWeeklyWinRate_FirstPositive(cards) ==
    IF \E i \in 1..Len(cards) : cards[i].weekly_win_rate > 0
    THEN cards[CHOOSE i \in 1..Len(cards) :
                  /\ cards[i].weekly_win_rate > 0
                  /\ \A j \in 1..(i - 1) : cards[j].weekly_win_rate = 0]
    ELSE cards[1]

\* max(cards, key=lambda x: x["weekly_win_rate"]): the first of the cards
\* with the largest key
MaxByWeeklyWinRate(cards) ==
    cards[CHOOSE i \in 1..Len(cards) :
              /\ \A j \in 1..Len(cards) : cards[j].weekly_win_rate <= cards[i].weekly_win_rate
              /\ \A j \in 1..(i - 1) : cards[j].weekly_win_rate < cards[i].weekly_win_rate]

\* (mutation of StreakCallouts: the cold models are called out first)
StreakCallouts_ColdFirst(cards) ==
    LET hot_models  == SelectSeq(cards, LAMBDA c : Carries(c, "fire"))
        cold_models == SelectSeq(cards, LAMBDA c : Carries(c, "ice"))
    IN  [i \in 1..Len(cold_models) |-> IceSentence(cold_models[i])]
            \o [i \in 1..Len(hot_models) |-> FireSentence(hot_models[i])]

\* callouts after the two loops over hot_models and cold_models
StreakCallouts(cards) ==
    LET hot_models  == SelectSeq(cards, LAMBDA c : Carries(c, "fire"))
        cold_models == SelectSeq(cards, LAMBDA c : Carries(c, "ice"))
    IN  [i \in 1..Len(hot_models) |-> FireSentence(hot_models[i])]
            \o [i \in 1..Len(cold_models) |-> IceSentence(cold_models[i])]

format_streak_callout(rep) ==
    LET cards    == rep.weekly_report_cards
        streaky  == StreakCallouts(cards)
        callouts == IF streaky # <<>> THEN streaky
                    ELSE IF cards # <<>> /\ MaxByWeeklyWinRate(cards).weekly_win_rate > 0
                    THEN << DominatedSentence(MaxByWeeklyWinRate(cards)) >>
                    ELSE <<>>
    IN  IF callouts # <<>> THEN callouts ELSE << NeutralSentence >>

CallFormatStreakCallout ==
    /\ report # NotReturned
    /\ callout = NotReturned
    /\ callout' = [returned |-> TRUE, value |-> format_streak_callout(report)]
    /\ UNCHANGED <<weekVars, streakVars, dbVars, overall_stats_read, weekly_stats_read,
                   report, procVars, runVars>>

\* two models followed over a longer history, a report, its callout
NextSeason == RecordSeasonPrediction \/ CallCalculateWeeklyReport \/ CallFormatStreakCallout

SpecSeason == InitReport /\ [][NextSeason]_vars

(***************************************************************************)
(* Claims about streaks over the whole history and about the callout       *)
(***************************************************************************)
\* the model's outcomes, oldest first, inside and outside the window
History(m) == [i \in 1..Len(predictions[m]) |-> predictions[m][i].is_correct]

\* C18: the streak on a report card is the trailing run of the model's whole
\* prediction history, not of the predictions inside the weekly window; a
\* model with four correct outcomes in the window after two correct ones
\* before it has streak (win, 6) and the hot indicator.
C18_StreakOverFullHistory ==
    Returned =>
        \A k \in CardIndices :
            LET h == History(Cards[k].model_name)
            IN  /\ IsTrailingRun(Cards[k].streak, h)
                /\ (Len(h) >= 3 /\ \A i \in (Len(h) - 2)..Len(h) : h[i] = 1)
                       => Carries(Cards[k], "fire")

\* C18 witness: a card with four weekly predictions, all correct, whose
\* streak is (win, 6) and which is hot
C18_Witness ==
    /\ Returned
    /\ \E k \in CardIndices :
          /\ Cards[k].weekly_predictions = 4
          /\ Cards[k].weekly_record = <<4, "-", 0>>
          /\ Cards[k].streak = [type |-> "W", count |-> 6]
          /\ Carries(Cards[k], "fire")

CalledOut == callout.returned
Callout == callout.value
HotCards == { k \in CardIndices : Carries(Cards[k], "fire") }
ColdCards == { k \in CardIndices : Carries(Cards[k], "ice") }
IsFire(s) == s.text = "{model} is ON FIRE with {count} wins in a row!"
IsIce(s) == s.text = "{model} is ICE COLD with {count} straight losses!"
IsDominated(s) == s.text = "{model} dominated this week!"

\* C19: the callout has one sentence per hot card, then one per cold card,
\* each naming the card's model and streak count in card order; only when
\* no card is hot or cold it is the single sentence that a card with the
\* highest weekly win rate dominated, and it is the neutral statement
\* exactly when no card is hot or cold and every weekly win rate is zero;
\* it is never empty.
C19_CalloutCases ==
    CalledOut =>
        /\ Len(Callout) >= 1
        /\ (HotCards \cup ColdCards # {}) =>
              /\ Len(Callout) = Cardinality(HotCards) + Cardinality(ColdCards)
              /\ \A i \in 1..Len(Callout) :
                    IF i <= Cardinality(HotCards)
                    THEN \E k \in HotCards :
                            /\ Callout[i] = [model |-> Cards[k].model_name,
                                             text  |-> "{model} is ON FIRE with {count} wins in a row!",
                                             count |-> Cards[k].streak.count]
                            /\ Cardinality({ j \in HotCards : j <= k }) = i
                    ELSE \E k \in ColdCards :
                            /\ Callout[i] = [model |-> Cards[k].model_name,
                                             text  |-> "{model} is ICE COLD with {count} straight losses!",
                                             count |-> Cards[k].streak.count]
                            /\ Cardinality({ j \in ColdCards : j <= k }) = i - Cardinality(HotCards)
        /\ \A i \in 1..Len(Callout) :
              IsDominated(Callout[i]) =>
                  /\ HotCards \cup ColdCards = {}
                  /\ Len(Callout) = 1
                  /\ \E k \in CardIndices :
                        /\ Cards[k].model_name = Callout[i].model
                        /\ Cards[k].weekly_win_rate > 0
                        /\ \A j \in CardIndices :
                              Cards[j].weekly_win_rate <= Cards[k].weekly_win_rate
        /\ (Callout = << [text |-> "It's anyone's game!"] >>)
              <=> (/\ HotCards \cup ColdCards = {}
                   /\ \A k \in CardIndices : Cards[k].weekly_win_rate = 0)

\* C19 witness: a callout of two sentences, for a hot card and for a cold
\* card that comes before it among the cards
C19_Witness ==
    /\ CalledOut
    /\ Len(Callout) = 2
    /\ IsFire(Callout[1]) /\ IsIce(Callout[2])
    /\ \E h \in HotCards, c \in ColdCards : c < h

(***************************************************************************)
(* update_game_result beside a report generation. The function executes    *)
(* its three statements on one connection and commits once (the sqlite3    *)
(* module opens a transaction before the first UPDATE); txn holds the      *)
(* tables as that connection sees them before the commit. The report       *)
(* generation makes its four reads one after the other, each on a          *)
(* connection of its own.                                                  *)
(***************************************************************************)
\* (mutation of Visible: the other connections read uncommitted changes)
Visible_Uncommitted(committed, working) == working

\* the tables another connection reads while a transaction is open: the
\* datastore shows a connection only committed data
Visible(committed, working) == committed

\* <<games, predictions, model_stats>> as the writing connection sees them
Working ==
    IF txn.running THEN <<txn.games, txn.predictions, txn.model_stats>>
    ELSE <<games, predictions, model_stats>>

\* <<games, predictions, model_stats>> as a reading connection sees them
ReaderView == Visible(<<games, predictions, model_stats>>, Working)

\* the stored picks the results arrive for: both models picked the home team
\* in the first game; in the second Claude picked home and Grok away
TxnPicks ==
    LET first  == CHOOSE id \in DbGameIds : id = IngestGameId
        second == CHOOSE id \in DbGameIds : id # IngestGameId
    IN  << [game_id |-> first,  model_name |-> "Claude", predicted_winner |-> "home", confidence |-> 80],
           [game_id |-> first,  model_name |-> "Grok",   predicted_winner |-> "home", confidence |-> 80],
           [game_id |-> second, model_name |-> "Claude", predicted_winner |-> "home", confidence |-> 80],
           [game_id |-> second, model_name |-> "Grok",   predicted_winner |-> "away", confidence |-> 60] >>

InitTxn ==
    /\ WeekVarsIdle /\ StreakVarsIdle /\ ReportVarsIdle /\ ProcVarsIdle /\ RunVarsIdle
    /\ games = { [game_id |-> id, game_date |-> id[1]] : id \in DbGameIds }
    /\ predictions = InsertAll(NoPredictions, games, TxnPicks)
    /\ model_stats = {}

\* update_game_result is called for a game that needs its result and
\* executes UPDATE games
BeginUpdateGameResult ==
    /\ ~txn.running
    /\ \E g \in games, winner \in Teams :
          /\ "winner" \notin DOMAIN g
          /\ txn' = [running |-> TRUE, game_id |-> g.game_id, winner |-> winner, done |-> 1,
                     games       |-> SetGameResult(games, g.game_id, winner),
                     predictions |-> predictions,
                     model_stats |-> model_stats]
    /\ UNCHANGED <<weekVars, streakVars, dbVars, reportVars, ingest, reads, runVars>>

\* UPDATE predictions
ExecMarkPredictions ==
    /\ txn.running /\ txn.done = 1
    /\ txn' = [txn EXCEPT !.done = 2,
                          !.predictions = MarkPredictions(@, txn.game_id, txn.winner)]
    /\ UNCHANGED <<weekVars, streakVars, dbVars, reportVars, ingest, reads, runVars>>

\* INSERT INTO model_stats ... ON CONFLICT DO UPDATE
ExecUpsertModelStats ==
    /\ txn.running /\ txn.done = 2
    /\ txn' = [txn EXCEPT !.done = 3,
                          !.model_stats = UpsertModelStats(@, txn.predictions)]
    /\ UNCHANGED <<weekVars, streakVars, dbVars, reportVars, ingest, reads, runVars>>

\* conn.commit(), and the function returns True
CommitUpdateGameResult ==
    /\ txn.running /\ txn.done = 3
    /\ games' = txn.games
    /\ predictions' = txn.predictions
    /\ model_stats' = txn.model_stats
    /\ txn' = [running |-> FALSE, returned |-> TRUE, game_id |-> txn.game_id, done |-> txn.done]
    /\ UNCHANGED <<weekVars, streakVars, reportVars, ingest, reads, runVars>>

\* (mutation of CloseWithoutCommit: the statements executed so far stay)
CloseWithoutCommit_KeepsWork(committed, working) == working

\* the tables after conn.close() on a connection with an open transaction:
\* the transaction is rolled back
CloseWithoutCommit(committed, working) == committed

\* a statement or the commit raises: the function returns False and the
\* connection is closed without a commit
AbortUpdateGameResult ==
    /\ txn.running
    /\ LET kept == CloseWithoutCommit(<<games, predictions, model_stats>>, Working)
       IN  games' = kept[1] /\ predictions' = kept[2] /\ model_stats' = kept[3]
    /\ txn' = [running |-> FALSE, returned |-> FALSE, game_id |-> txn.game_id, done |-> txn.done]
    /\ UNCHANGED <<weekVars, streakVars, reportVars, ingest, reads, runVars>>

\* calculate_weekly_report is called: the window, no read yet
BeginCalculateWeeklyReport ==
    /\ report = NotReturned
    /\ ~reads.running
    /\ \E ref \in ReportDates :
          reads' = [running |-> TRUE, done |-> 0, reference_date |-> ref,
                    range |-> get_week_date_range(ref)]
    /\ UNCHANGED <<weekVars, streakVars, dbVars, reportVars, ingest, txn, runVars>>

\* overall_stats = get_model_stats()
ReadModelStats ==
    /\ reads.running /\ reads.done = 0
    /\ \E overall_stats \in ByWinRateDesc(ReaderView[3]) :
          reads' = [running |-> TRUE, done |-> 1, reference_date |-> reads.reference_date,
                    range |-> reads.range, overall_stats |-> overall_stats]
    /\ UNCHANGED <<weekVars, streakVars, dbVars, reportVars, ingest, txn, runVars>>

\* weekly_stats = get_weekly_stats(start_date, end_date)
ReadWeeklyStats ==
    /\ reads.running /\ reads.done = 1
    /\ \E weekly_stats \in WeeklyStatsOf(ReaderView[2], reads.range[1], reads.range[2]) :
          reads' = [running |-> TRUE, done |-> 2, reference_date |-> reads.reference_date,
                    range |-> reads.range, overall_stats |-> reads.overall_stats,
                    weekly_stats |-> weekly_stats]
    /\ UNCHANGED <<weekVars, streakVars, dbVars, reportVars, ingest, txn, runVars>>

\* streaks = get_all_model_streaks()
ReadStreaks ==
    /\ reads.running /\ reads.done = 2
    /\ reads' = [running |-> TRUE, done |-> 3, reference_date |-> reads.reference_date,
                 range |-> reads.range, overall_stats |-> reads.overall_stats,
                 weekly_stats |-> reads.weekly_stats, streaks |-> StreaksOf(ReaderView[2])]
    /\ UNCHANGED <<weekVars, streakVars, dbVars, reportVars, ingest, txn, runVars>>

\* total_games = get_total_games_in_range(start_date, end_date), and the
\* report is built from what was read and returned
ReadTotalGamesAndReturn ==
    /\ reads.running /\ reads.done = 3
    /\ reference_date' = reads.reference_date
    /\ week_range' = reads.range
    /\ overall_stats_read' = reads.overall_stats
    /\ weekly_stats_read' = reads.weekly_stats
    /\ report' = calculate_weekly_report(reads.range[1], reads.range[2], reads.overall_stats,
                     reads.weekly_stats, reads.streaks,
                     TotalGamesOf(ReaderView[2], reads.range[1], reads.range[2]))
    /\ reads' = NotRunning
    /\ UNCHANGED <<streakVars, dbVars, callout, ingest, txn, runVars>>

\* (mutation of ReportOnReadError: the reads made so far are returned)
ReportOnReadError_Partial(rd) == [week_start |-> rd.range[1], week_end |-> rd.range[2]]

\* what calculate_weekly_report returns when one of its reads raises: the
\* function has no try/except, the exception leaves it and nothing is
\* returned
ReportOnReadError(rd) == NotReturned

\* one of the four reads raises (the database is locked, a table is gone):
\* the exception propagates out of calculate_weekly_report
RaiseInRead ==
    /\ reads.running
    /\ reads' = [running |-> FALSE, raised |-> TRUE, done |-> reads.done]
    /\ report' = ReportOnReadError(reads)
    /\ UNCHANGED <<weekVars, streakVars, dbVars, overall_stats_read, weekly_stats_read,
                   callout, ingest, txn, runVars>>

NextTxn ==
    \/ BeginUpdateGameResult \/ ExecMarkPredictions \/ ExecUpsertModelStats
    \/ CommitUpdateGameResult \/ AbortUpdateGameResult
    \/ BeginCalculateWeeklyReport \/ ReadModelStats \/ ReadWeeklyStats
    \/ ReadStreaks \/ ReadTotalGamesAndReturn \/ RaiseInRead

SpecTxn == InitTxn /\ [][NextTxn]_vars

\* the rows of a predictions table
RowsIn(preds) == UNION { { preds[m][i] : i \in 1..Len(preds[m]) } : m \in DOMAIN preds }

\* C20: whatever a reading connection sees, at any moment of an update, is
\* the state entirely before or entirely after it: a game with a recorded
\* winner has all its predictions marked against that winner, a marked
\* prediction belongs to a game with a recorded winner, and every model's
\* model_stats row counts exactly the marked predictions of the model.
C20_ReadersSeeWholeUpdates ==
    LET seen_games == ReaderView[1]
        seen_preds == RowsIn(ReaderView[2])
        seen_stats == ReaderView[3]
    IN  /\ \A g \in seen_games : \A r \in seen_preds :
              r.game_id = g.game_id =>
                  /\ ("winner" \in DOMAIN g) <=> Resolved(r)
                  /\ Resolved(r) => (r.is_correct = 1 <=> r.predicted_winner = g.winner)
        /\ \A m \in DbModels :
              LET known == { r \in seen_preds : r.model_name = m /\ Resolved(r) }
                  mine  == { s \in seen_stats : s.model_name = m }
              IN  /\ (mine = {}) <=> (known = {})
                  /\ \A s \in mine :
                        /\ s.total_predictions = Cardinality(known)
                        /\ s.correct_predictions
                              = Cardinality({ r \in known : r.is_correct = 1 })

\* C20 witness: a transaction has recorded a winner and marked the
\* predictions on its own connection and has not committed, while a report
\* generation is between two of its reads
C20_Witness ==
    /\ txn.running /\ txn.done = 2
    /\ reads.running /\ reads.done = 1
    /\ \E r \in RowsIn(txn.predictions) : Resolved(r)
    /\ \A r \in RowsIn(predictions) : ~Resolved(r)

\* the keys of the dictionary calculate_weekly_report builds
ReportKeys ==
    {"week_start", "week_end", "total_games", "overall_leaderboard", "weekly_report_cards"}

\* a read of the running calculate_weekly_report has raised
ReadRaised == "raised" \in DOMAIN reads

\* C21: calculate_weekly_report has no partial result: when one of its four
\* reads raises, no report is returned, and a report that is returned has
\* exactly the keys week_start, week_end, total_games, overall_leaderboard
\* and weekly_report_cards.
C21_NoPartialReport ==
    /\ ReadRaised => report = NotReturned
    /\ Returned => DOMAIN report = ReportKeys

\* C21 witness: the third read raised after two reads had succeeded, and
\* the call returned nothing
C21_Witness == ReadRaised /\ reads.done = 2 /\ report = NotReturned

\* the step in which update_game_result returns False
ReturnsFalse == txn.running /\ ~txn'.running /\ ~txn'.returned

\* C28: when update_game_result returns False, none of its changes are
\* persisted: the step that returns False leaves the games, predictions and
\* model_stats tables as they are, and they are as they were before the
\* call, because no step of a running call changes them.
C28_FailedUpdatePersistsNothing ==
    [][ /\ ReturnsFalse => UNCHANGED dbVars
        /\ (txn.running /\ txn'.running) => UNCHANGED dbVars ]_vars

\* C28 witness: a call executed all three statements and returned False; its
\* game has no winner and none of the game's predictions is marked
C28_Witness ==
    /\ ~txn.running /\ "returned" \in DOMAIN txn /\ ~txn.returned /\ txn.done = 3
    /\ \E g \in games : g.game_id = txn.game_id /\ "winner" \notin DOMAIN g
    /\ \A r \in RowsIn(predictions) : r.game_id = txn.game_id => ~Resolved(r)

\* C26 as stated: every stored prediction with a non-null is_correct has
\* is_correct = 1 exactly when its stored predicted_winner is the recorded
\* winner of its game, also after a prediction was stored again for a game
\* whose result is recorded.
C26_FlagAgreesWithStoredPick ==
    \A r \in AllPredictions :
        Resolved(r) => (r.is_correct = 1 <=> WinnerOf(r.game_id) = {r.predicted_winner})

\* the three tables
Tables == <<games, predictions, model_stats>>

\* C30: update_game_result is idempotent: from every state of the tables,
\* for every stored game and every winner, a second call with the same
\* arguments leaves the games table, every prediction's is_correct and every
\* model_stats row as the first call left them.
C30_UpdateGameResultIdempotent ==
    \A g \in games : \A winner \in Teams :
        LET once  == update_game_result(Tables, g.game_id, winner)
            twice == update_game_result(once, g.game_id, winner)
        IN  twice = once

\* C30 witness: a game's result has been recorded and marked on the game's
\* two predictions, one right and one wrong, beside a resolved prediction of
\* the other game, and a second call with the same winner changes nothing
C30_Witness ==
    \E g \in games :
        /\ "winner" \in DOMAIN g
        /\ \E r, u \in AllPredictions :
              /\ r.game_id = g.game_id /\ u.game_id = g.game_id
              /\ Resolved(r) /\ Resolved(u) /\ r.is_correct = 1 /\ u.is_correct = 0
        /\ \E q \in AllPredictions : q.game_id # g.game_id /\ Resolved(q)
        /\ update_game_result(Tables, g.game_id, g.winner) = Tables

(***************************************************************************)
(* The games table under the schedule, the odds and the results:           *)
(* fetch_and_store_games, update_games_with_odds and update_game_result.   *)
(* A spread is kept in tenths of a point.                                  *)
(***************************************************************************)
\* the spreads the odds feed is tried with; a spread of 0 is falsy
OddsSpreads == {0, 35, 70}

\* UPDATE games SET vegas_favorite = ?, vegas_spread = ? WHERE game_id = ?,
\* executed only if odds["favorite"] and odds["spread"]
SetOdds(gs, game_id, favorite, spread) ==
    IF spread = 0 THEN gs
    ELSE { IF g.game_id = game_id
           THEN [vegas_favorite |-> favorite, vegas_spread |-> spread] @@ g
           ELSE g : g \in gs }

\* update_games_with_odds: the odds of an event are written to its game
UpdateGamesWithOdds ==
    /\ \E game_id \in DbGameIds, favorite \in Teams, spread \in OddsSpreads :
          games' = SetOdds(games, game_id, favorite, spread)
    /\ UNCHANGED <<weekVars, streakVars, predictions, model_stats, reportVars, procVars, runVars>>

NextOdds == CallInsertGame \/ UpdateGamesWithOdds \/ CallUpdateGameResult

SpecOdds == InitDb /\ [][NextOdds]_vars

\* C27 as stated: storing a fetched game whose game_id is already stored
\* leaves the stored game as it is: odds, date, winner.
C27_RefetchKeepsStoredGame ==
    [][\A game_id \in StoredGameIds(games) :
          games' = insert_game(games, FetchedGame(game_id)) => games' = games]_vars

\* the cards the callout says dominated the week
DominatedCards ==
    { k \in CardIndices :
          \E i \in 1..Len(Callout) :
              IsDominated(Callout[i]) /\ Callout[i].model = Cards[k].model_name }

\* the cards whose weekly win rate no card exceeds
TopRateCards ==
    { k \in CardIndices : \A j \in CardIndices :
          Cards[j].weekly_win_rate <= Cards[k].weekly_win_rate }

\* C29 as stated: whenever the callout says a model dominated the week, that
\* model's card carries the crown in the same report.
C29_DominatedIsCrowned ==
    CalledOut => DominatedCards \subseteq Crowned

\* C29, amended: whenever the callout says a model dominated the week, that
\* model's card has a weekly win rate above zero that no card exceeds, one
\* card carries the crown and it has the same weekly win rate; the two are
\* the same card when no other card has that rate.
C29_DominatedTiesCrowned ==
    CalledOut =>
        \A k \in DominatedCards :
            /\ Cards[k].weekly_win_rate > 0
            /\ k \in TopRateCards
            /\ Cardinality(Crowned) = 1
            /\ Crowned \subseteq TopRateCards
            /\ Cardinality(TopRateCards) = 1 => k \in Crowned

\* C29 witness: two models share the highest weekly win rate; the callout
\* names one of them and the other carries the crown
C29_Witness ==
    /\ CalledOut
    /\ Cardinality(TopRateCards) = 2
    /\ \E k \in DominatedCards : k \notin Crowned /\ Crowned # {}

\* the stored predictions of a game
StoredFor(preds, game_id) == { r \in RowsIn(preds) : r.game_id = game_id }

\* C24: get_predictions_for_date queries no model and changes no stored
\* prediction for a game that has four stored predictions, so a run after a
\* fully successful run changes nothing; and in every state each game has at
\* most four stored predictions, at most one per model, each of a model of
\* the roster.
C24_PredictedGameIsSkipped ==
    /\ [](\A g \in games :
              LET stored == StoredFor(predictions, g.game_id)
              IN  /\ Cardinality(stored) <= 4
                  /\ \A r, u \in stored :
                        /\ \E i \in 1..Len(Roster) : Roster[i] = r.model_name
                        /\ r.model_name = u.model_name => r = u)
    /\ [][\A g \in games :
              Cardinality(StoredFor(predictions, g.game_id)) >= 4 =>
                  /\ predictions' = predictions
                  /\ ~ingest'.running]_vars

\* C24 witness: a game has four stored predictions, one per roster model,
\* and the run that reached it skipped it
C24_Witness ==
    /\ "skipped" \in DOMAIN ingest
    /\ { r.model_name : r \in StoredFor(predictions, ingest.skipped) }
           = { Roster[i] : i \in 1..Len(Roster) }
    /\ Cardinality(StoredFor(predictions, ingest.skipped)) = 4

(***************************************************************************)
(* The results pipeline: update_results_for_date reads the games of a date *)
(* that have no winner, fetches the scoreboard of the date and calls       *)
(* update_game_result for those of them the scoreboard has a result for.   *)
(***************************************************************************)
\* the stored games: two on the first date, one on the other
ResultsGameIds == DbGameIds \cup { <<IngestGameId[1], 2>> }

\* winner of a completed event: the team with the higher score, or "TIE"
ResultWinners == Teams \cup {"TIE"}

\* fetch_results_for_date: the ids of the events the scoreboard reports as
\* completed; an event that is not completed, or that cannot be parsed, gets
\* no entry in the dictionary, and a failed request gives the empty one
CompletedEvents == SUBSET ResultsGameIds

\* (mutation of get_games_needing_results: the condition winner IS NULL is
\* missing)
get_games_needing_results_AnyWinner(gs, date) == { g \in gs : g.game_date = date }

\* SELECT * FROM games WHERE game_date = ? AND winner IS NULL
get_games_needing_results(gs, date) ==
    { g \in gs : g.game_date = date /\ "winner" \notin DOMAIN g }

\* the loop over games_needing: update_game_result for each game of ids
RECURSIVE UpdateEach(_, _, _)
UpdateEach(tables, ids, results) ==
    IF ids = {} THEN tables
    ELSE LET id == CHOOSE x \in ids : TRUE
         IN  UpdateEach(update_game_result(tables, id, results[id]), ids \ {id}, results)

\* the predictions stored before the results: Claude picked the home team
\* and Grok the away team in every game
RECURSIVE ResultsPicks(_)
ResultsPicks(ids) ==
    IF ids = {} THEN <<>>
    ELSE LET id == CHOOSE x \in ids : TRUE
         IN  << [game_id |-> id, model_name |-> "Claude", predicted_winner |-> "home", confidence |-> 80],
                [game_id |-> id, model_name |-> "Grok", predicted_winner |-> "away", confidence |-> 60] >>
                 \o ResultsPicks(ids \ {id})

InitResults ==
    /\ WeekVarsIdle /\ StreakVarsIdle /\ ReportVarsIdle /\ ProcVarsIdle /\ RunVarsIdle
    /\ games = { FetchedGame(id) : id \in ResultsGameIds }
    /\ predictions = InsertAll(NoPredictions, games, ResultsPicks(ResultsGameIds))
    /\ model_stats = {}

\* update_results_for_date(date): without a game needing a result it returns
\* before the scoreboard is fetched; otherwise update_game_result is called
\* for every game needing a result that the scoreboard has an entry for,
\* with the winner of the entry, and the calls that fail return False, which
\* the loop ignores
UpdateResultsForDate ==
    /\ \E date \in GameDates :
          LET games_needing == get_games_needing_results(games, date)
          IN  IF games_needing = {}
              THEN /\ results_run' = [running |-> FALSE, date |-> date, completed |-> {},
                                      called |-> {}, failed |-> {}]
                   /\ UNCHANGED dbVars
              ELSE \E completed \in CompletedEvents :
                      LET called == { g.game_id : g \in games_needing } \cap completed
                      IN  \E failed \in SUBSET called :
                          \E results \in [called \ failed -> ResultWinners] :
                             LET after == UpdateEach(Tables, called \ failed, results)
                             IN  /\ games' = after[1]
                                 /\ predictions' = after[2]
                                 /\ model_stats' = after[3]
                                 /\ results_run' = [running |-> FALSE, date |-> date,
                                                    completed |-> completed,
                                                    called |-> called, failed |-> failed]
    /\ UNCHANGED <<weekVars, streakVars, reportVars, procVars, morning, weekly_content, content_log>>

NextResults == UpdateResultsForDate

SpecResults == InitResults /\ [][NextResults]_vars

\* the games without a recorded winner
Unfinished(gs) == { g \in gs : "winner" \notin DOMAIN g }

\* C22: the results pipeline records a game's result at most once. A run of
\* update_results_for_date calls update_game_result only for games of its
\* date that have no winner and that the scoreboard reports as completed; a
\* game that has a winner is changed by no run; a game the scoreboard does
\* not report as completed keeps its null winner, and the predictions of a
\* game without a winner are unmarked.
C22_ResultRecordedAtMostOnce ==
    /\ [](\A g \in Unfinished(games) :
              \A r \in StoredFor(predictions, g.game_id) : ~Resolved(r))
    /\ [][/\ \A g \in games \ Unfinished(games) : g \in games'
          /\ results_run'.called
                 \subseteq { g.game_id : g \in { x \in Unfinished(games) :
                                 /\ x.game_date = results_run'.date
                                 /\ x.game_id \in results_run'.completed } }
          /\ \A g \in Unfinished(games) :
                 g.game_id \notin results_run'.completed => g \in games']_vars

\* C22 witness: a run updated one game of its date; the other game of the
\* date was not completed and is still without a winner, and the game of the
\* other date, which the scoreboard also listed, was not touched
C22_Witness ==
    /\ ~results_run.running /\ "called" \in DOMAIN results_run
    /\ Cardinality(results_run.called) = 1 /\ results_run.failed = {}
    /\ \E g, h, k \in games :
          /\ g.game_id \in results_run.called /\ "winner" \in DOMAIN g
          /\ h.game_date = results_run.date /\ h \in Unfinished(games)
          /\ k.game_date # results_run.date /\ k.game_id \in results_run.completed
          /\ k \in Unfinished(games)

(***************************************************************************)
(* run_morning_pipeline: the steps of one run in the order the function    *)
(* invokes them. morning.steps is the list of the collaborators invoked so *)
(* far; any of them may raise, which ends the run without completing it.   *)
(* What the collaborators do to the tables is the subject of the           *)
(* specifications above; here a step is its invocation and what the        *)
(* function keeps of its return value.                                     *)
(***************************************************************************)
\* most games found for tomorrow
MaxGamesFound == 2
\* largest content_limit a run is started with
MaxContentLimit == 2

Invoke(step) == [morning EXCEPT !.steps = Append(@, step)]

\* the function is called: init_db()
StartMorningPipeline ==
    /\ ~morning.running
    /\ \E skip_content \in BOOLEAN, content_limit \in 1..MaxContentLimit :
          morning' = [running |-> TRUE, pc |-> "results", steps |-> <<"init_db">>,
                      skip_content |-> skip_content, content_limit |-> content_limit,
                      games |-> 0, videos_created |-> 0]
    /\ UNCHANGED <<weekVars, streakVars, dbVars, reportVars, procVars,
                   results_run, weekly_content, content_log>>

\* update_yesterdays_results()
MorningUpdateResults ==
    /\ morning.running /\ morning.pc = "results"
    /\ morning' = [Invoke("update_yesterdays_results") EXCEPT !.pc = "games"]
    /\ UNCHANGED <<weekVars, streakVars, dbVars, reportVars, procVars,
                   results_run, weekly_content, content_log>>

\* games = fetch_and_store_games(date_api)
MorningFetchGames ==
    /\ morning.running /\ morning.pc = "games"
    /\ \E found \in 0..MaxGamesFound :
          morning' = [Invoke("fetch_and_store_games") EXCEPT
                         !.games = found,
                         !.pc = IF found = 0 THEN "sync" ELSE "odds"]
    /\ UNCHANGED <<weekVars, streakVars, dbVars, reportVars, procVars,
                   results_run, weekly_content, content_log>>

\* update_games_with_odds(date_api)
MorningFetchOdds ==
    /\ morning.running /\ morning.pc = "odds"
    /\ morning' = [Invoke("update_games_with_odds") EXCEPT !.pc = "predictions"]
    /\ UNCHANGED <<weekVars, streakVars, dbVars, reportVars, procVars,
                   results_run, weekly_content, content_log>>

\* predictions = get_predictions_for_date(date_db)
MorningGetPredictions ==
    /\ morning.running /\ morning.pc = "predictions"
    /\ morning' = [Invoke("get_predictions_for_date") EXCEPT !.pc = "content"]
    /\ UNCHANGED <<weekVars, streakVars, dbVars, reportVars, procVars,
                   results_run, weekly_content, content_log>>

\* if not skip_content: content_results = generate_daily_content(date_db,
\* limit=content_limit), of which those with a video_path are counted
MorningContent ==
    /\ morning.running /\ morning.pc = "content"
    /\ IF morning.skip_content
       THEN morning' = [morning EXCEPT !.pc = "upload"]
       ELSE \E videos \in 0..Min(morning.content_limit, morning.games) :
               morning' = [Invoke("generate_daily_content") EXCEPT
                              !.videos_created = videos, !.pc = "upload"]
    /\ UNCHANGED <<weekVars, streakVars, dbVars, reportVars, procVars,
                   results_run, weekly_content, content_log>>

\* (mutation of ShouldUpload: the upload does not depend on the videos)
ShouldUpload_Always(videos_created) == TRUE

\* if videos_created > 0
ShouldUpload(videos_created) == videos_created > 0

\* upload_todays_videos(), or nothing to upload
MorningUpload ==
    /\ morning.running /\ morning.pc = "upload"
    /\ IF ShouldUpload(morning.videos_created)
       THEN morning' = [Invoke("upload_todays_videos") EXCEPT !.pc = "sync"]
       ELSE morning' = [morning EXCEPT !.pc = "sync"]
    /\ UNCHANGED <<weekVars, streakVars, dbVars, reportVars, procVars,
                   results_run, weekly_content, content_log>>

\* sync_to_sheets(), after which the function returns: at the end of the
\* run, or at once when no games were found
MorningSync ==
    /\ morning.running /\ morning.pc = "sync"
    /\ morning' = [Invoke("sync_to_sheets") EXCEPT !.running = FALSE, !.pc = "completed"]
    /\ UNCHANGED <<weekVars, streakVars, dbVars, reportVars, procVars,
                   results_run, weekly_content, content_log>>

\* the collaborator invoked next raises: the exception leaves the function
MorningRaise ==
    /\ morning.running
    /\ morning' = [morning EXCEPT !.running = FALSE, !.pc = "raised"]
    /\ UNCHANGED <<weekVars, streakVars, dbVars, reportVars, procVars,
                   results_run, weekly_content, content_log>>

InitMorning == InitReport

NextMorning ==
    \/ StartMorningPipeline \/ MorningUpdateResults \/ MorningFetchGames
    \/ MorningFetchOdds \/ MorningGetPredictions \/ MorningContent
    \/ MorningUpload \/ MorningSync \/ MorningRaise

SpecMorning == InitMorning /\ [][NextMorning]_vars

\* the positions of a step in the steps of the run
Positions(step) == { i \in 1..Len(morning.steps) : morning.steps[i] = step }
Invoked(step) == Positions(step) # {}
MorningCompleted == "pc" \in DOMAIN morning /\ morning.pc = "completed"

MaxWeeklyRuns == 2
\* most games the report counts for the week
MaxWeeklyGames == 2

\* result = {"script": None, "audio_path": None, "video_path": None}
EmptyResult == [script |-> None, audio_path |-> None, video_path |-> None]

RunsSoFar == IF "runs" \in DOMAIN weekly_content THEN weekly_content.runs ELSE 0

\* the function is called and calculates the report; without games in the
\* week it returns the empty result
WeeklyReport ==
    /\ ~weekly_content.running
    /\ RunsSoFar < MaxWeeklyRuns
    /\ \E ref \in ReportDates, total_games \in 0..MaxWeeklyGames :
          weekly_content' = [running |-> total_games # 0,
                             pc |-> IF total_games = 0 THEN "returned" ELSE "script",
                             runs |-> RunsSoFar + 1,
                             week |-> get_week_date_range(ref),
                             total_games |-> total_games,
                             tts |-> None,
                             logged_before |-> Len(content_log),
                             result |-> EmptyResult]
    /\ UNCHANGED <<weekVars, streakVars, dbVars, reportVars, procVars,
                   results_run, morning, content_log>>

\* script = generate_weekly_script(report); result["script"] = script
WeeklyScript ==
    /\ weekly_content.running /\ weekly_content.pc = "script"
    /\ weekly_content' = [weekly_content EXCEPT !.pc = "tts", !.result.script = "script"]
    /\ UNCHANGED <<weekVars, streakVars, dbVars, reportVars, procVars,
                   results_run, morning, content_log>>

\* tts_result = generate_tts_with_timing(script, audio_path); if not
\* tts_result: return result
WeeklyTts ==
    /\ weekly_content.running /\ weekly_content.pc = "tts"
    /\ \/ weekly_content' = [weekly_content EXCEPT
                                !.running = FALSE, !.pc = "returned", !.tts = "failed"]
       \/ weekly_content' = [weekly_content EXCEPT
                                !.pc = "video", !.tts = "ok", !.result.audio_path = "audio"]
    /\ UNCHANGED <<weekVars, streakVars, dbVars, reportVars, procVars,
                   results_run, morning, content_log>>

\* (mutation of VideoProduced: the return value is not looked at)
VideoProduced_Always(video_path) == TRUE

\* if video_path
VideoProduced(video_path) == video_path # None

\* INSERT INTO content_log (game_id, video_path, script)
LogRow(week, video_path, script) ==
    [game_id |-> <<"weekly", week[1], week[2]>>, video_path |-> video_path, script |-> script]

\* video_path = generate_weekly_video(...); with a video the result gets its
\* path and a row is inserted into content_log; the function returns
WeeklyVideo ==
    /\ weekly_content.running /\ weekly_content.pc = "video"
    /\ \E video_path \in {None, "video"} :
          IF VideoProduced(video_path)
          THEN /\ weekly_content' = [weekly_content EXCEPT
                                        !.running = FALSE, !.pc = "returned",
                                        !.result.video_path = video_path]
               /\ content_log' = Append(content_log,
                                     LogRow(weekly_content.week, video_path,
                                            weekly_content.result.script))
          ELSE /\ weekly_content' = [weekly_content EXCEPT
                                        !.running = FALSE, !.pc = "returned"]
               /\ UNCHANGED content_log
    /\ UNCHANGED <<weekVars, streakVars, dbVars, reportVars, procVars, results_run, morning>>

\* a called function raises (the report's reads, the script, the renderer,
\* the insert): the exception leaves generate_weekly_content
WeeklyRaise ==
    /\ weekly_content.running
    /\ weekly_content' = [weekly_content EXCEPT !.running = FALSE, !.pc = "raised"]
    /\ UNCHANGED <<weekVars, streakVars, dbVars, reportVars, procVars,
                   results_run, morning, content_log>>

NextWeekly == WeeklyReport \/ WeeklyScript \/ WeeklyTts \/ WeeklyVideo \/ WeeklyRaise

SpecWeekly == InitReport /\ [][NextWeekly]_vars

WeeklyReturned == "pc" \in DOMAIN weekly_content /\ weekly_content.pc = "returned"

\* the content_log rows inserted by the run
LoggedByRun == Len(content_log) - weekly_content.logged_before

\* C25: generate_weekly_content goes script, audio, video, log. A run whose
\* report has total_games = 0 returns with script, audio_path and video_path
\* null; a run whose speech synthesis fails returns with the script set and
\* audio_path and video_path null; a returned result has a video only with
\* an audio and an audio only with a script; and the run has inserted one
\* content_log row if its result has a video_path and none otherwise.
C25_WeeklyContentStages ==
    WeeklyReturned =>
        LET result == weekly_content.result
        IN  /\ weekly_content.total_games = 0 => result = EmptyResult
            /\ weekly_content.tts = "failed" =>
                   /\ result.script # None
                   /\ result.audio_path = None /\ result.video_path = None
            /\ result.video_path # None => result.audio_path # None
            /\ result.audio_path # None => result.script # None
            /\ LoggedByRun = (IF result.video_path # None THEN 1 ELSE 0)
            /\ result.video_path # None =>
                   content_log[Len(content_log)].video_path = result.video_path

\* C25 witness: a second run returned after its speech synthesis failed,
\* with the script set and nothing logged, after a first run that logged its
\* video
C25_Witness ==
    /\ WeeklyReturned
    /\ weekly_content.runs = 2 /\ weekly_content.tts = "failed"
    /\ weekly_content.result.script # None
    /\ Len(content_log) = 1 /\ LoggedByRun = 0
====
